---- MODULE Spec2Model ----
(***************************************************************************)
(* Model of bccsp/gm/keyimport.go: the GM key importers, and the           *)
(* file-based key store (Init, GetKey, StoreKey and their helpers).        *)
(*                                                                         *)
(* Strings that the code inspects character by character (file names,      *)
(* aliases, suffixes) are sequences of ASCII codes, so that HasPrefix,      *)
(* HasSuffix, hex encoding and the sorted directory listing are computed   *)
(* as the code computes them.  Directory paths are opaque strings.         *)
(***************************************************************************)
EXTENDS Integers, Sequences, FiniteSets, TLC

VARIABLES
    ks,         \* the fileBasedKeyStore instance: path, readOnly, isOpen, pwd
    fs,         \* the file system: the key store directory and the working directory
    last,       \* the last key store call: its arguments and what it returned
    initCalled, \* history: Init has been called on the instance
    initOk,     \* history: some Init call on the instance returned nil
    imp,        \* the last importer call: its arguments and what it returned
    conc,       \* concurrent callers: the mutex of the instance, and for each
                \* thread the call it is in, where it is in it, what it returned
    mem         \* the password buffer of the caller of Init, the array that
                \* backs ks.pwd, and the arguments of the Init that returned nil

vars == <<ks, fs, last, initCalled, initOk, imp, conc, mem>>

-----------------------------------------------------------------------------
(* Bounds of the model *)

MaxFiles == 2       \* directory entries the directories may hold
MaxSeed == 1        \* distinct byte patterns for raw SM4 material
NumThreads == 2     \* threads that call into one instance
MaxWrites == 1      \* writes of a caller into a buffer it has passed

(* Program constants *)

SizeLimit == 65536  \* 1 << 16, searchKeystoreForSKI
DirPerm == 493      \* 0755, createKeyStore
FilePerm == 384     \* 0600, store*Key
SM4KeyLen == 16     \* sm4ImportKeyOptsKeyImporter.KeyImport

-----------------------------------------------------------------------------
(* Strings as sequences of ASCII codes *)

Underscore == <<95>>                        \* "_"
SfxSk == <<115, 107>>                       \* "sk"
SfxPk == <<112, 107>>                       \* "pk"
SfxKey == <<107, 101, 121>>                 \* "key"
SfxSm4Key == <<115, 109, 52, 107, 101, 121>> \* "sm4key"
SfxNone == <<>>                             \* ""

\* strings.HasPrefix
HasPrefix(s, p) == Len(p) <= Len(s) /\ SubSeq(s, 1, Len(p)) = p

\* strings.HasSuffix
HasSuffix(s, x) == Len(x) <= Len(s) /\ SubSeq(s, Len(s) - Len(x) + 1, Len(s)) = x

\* one lowercase hex digit of encoding/hex
HexDigit(n) == IF n < 10 THEN 48 + n ELSE 87 + n

\* hex.EncodeToString: two lowercase hex digits per byte
EncodeToString(b) ==
    [i \in 1..(2 * Len(b)) |->
        IF i % 2 = 1 THEN HexDigit(b[(i + 1) \div 2] \div 16)
                     ELSE HexDigit(b[i \div 2] % 16)]

\* byte-wise lexicographic order of file names (the order of ioutil.ReadDir)
RECURSIVE NameLess(_, _)
NameLess(a, b) ==
    IF a = <<>> THEN b # <<>>
    ELSE IF b = <<>> THEN FALSE
    ELSE IF a[1] # b[1] THEN a[1] < b[1]
    ELSE NameLess(Tail(a), Tail(b))

RECURSIVE SortNames(_)
SortNames(S) ==
    IF S = {} THEN <<>>
    ELSE LET m == CHOOSE x \in S : \A y \in S \ {x} : NameLess(x, y)
         IN <<m>> \o SortNames(S \ {m})

-----------------------------------------------------------------------------
(* Keys (the key types of the package; their SKI is computed outside        *)
(* keyimport.go)                                                           *)

Variants == {"ecdsaPriv", "ecdsaPub", "sm2Priv", "sm2Pub", "aes", "sm4"}

\* fixed byte patterns standing for raw key bytes: n bytes starting at seed
Bytes(n, seed) == [i \in 1..n |-> (seed + i) % 256]

Materials == {Bytes(SM4KeyLen, 1)}

Keys == [variant : Variants, mat : Materials]

\* a key of a type StoreKey does not know, and the nil key
OtherKey == [variant |-> "other", mat |-> Bytes(SM4KeyLen, 1)]
NilKey == [variant |-> "nil", mat |-> <<>>]
NoKey == [variant |-> "none", mat |-> <<>>]

\* an AES key object without key bytes, which the codec refuses to encode
EmptyAesKey == [variant |-> "aes", mat |-> <<>>]

KeyArgs == Keys \cup {OtherKey, NilKey, EmptyAesKey}

IsPrivate(k) == k.variant \in {"ecdsaPriv", "sm2Priv", "aes", "sm4"}
IsSymmetric(k) == k.variant \in {"aes", "sm4"}

\* the algorithm family of a variant; a key pair's two halves share it
Family(v) ==
    CASE v \in {"ecdsaPriv", "ecdsaPub"} -> "ecdsa"
      [] v \in {"sm2Priv", "sm2Pub"} -> "sm2"
      [] v = "aes" -> "aes"
      [] v = "sm4" -> "sm4"
      [] OTHER -> "other"

FamilyByte(f) ==
    CASE f = "ecdsa" -> 161
      [] f = "sm2" -> 178
      [] f = "aes" -> 195
      [] f = "sm4" -> 212
      [] OTHER -> 229

\* Key.SKI(): a digest of the public point (asymmetric keys: the private and
\* the public key of a pair have the same SKI) or of the raw bytes
SKI(k) == <<FamilyByte(Family(k.variant)), k.mat[1]>>

\* equality of keys: same identifier, same private and symmetric flags
KeyEq(a, b) ==
    /\ SKI(a) = SKI(b)
    /\ IsPrivate(a) = IsPrivate(b)
    /\ IsSymmetric(a) = IsSymmetric(b)

-----------------------------------------------------------------------------
(* Passwords *)

NoPwd == <<>>
Pwds == {NoPwd, <<1>>, <<2>>}

-----------------------------------------------------------------------------
(* The PEM codec of bccsp/utils, as the key store uses it.  A record keeps  *)
(* what was encoded and the password it was encrypted under; an empty      *)
(* password leaves the record in plain text.                               *)

Pem(kind, alg, mat, enc) == [kind |-> kind, alg |-> alg, mat |-> mat, enc |-> enc]

Garbage == Pem("garbage", "none", <<>>, NoPwd)

\* the encoded length of a record
PemLen(pem) == 200 + Len(pem.mat) + (IF pem.enc = NoPwd THEN 0 ELSE 80)

\* a record opens when it is plain text, or encrypted under the given password
Opens(pem, pwd) == pem.kind # "garbage" /\ (pem.enc = NoPwd \/ pem.enc = pwd)

\* utils.PrivateKeyToPEM(privateKey, pwd): fails for a key it cannot marshal
PrivateKeyToPEM(priv, pwd) ==
    IF priv.alg \in {"ecdsa", "sm2"}
    THEN [ok |-> TRUE, pem |-> Pem("priv", priv.alg, priv.mat, pwd)]
    ELSE [ok |-> FALSE, pem |-> Garbage]

\* utils.PublicKeyToPEM(publicKey, pwd)
PublicKeyToPEM(pub, pwd) ==
    IF pub.alg \in {"ecdsa", "sm2"}
    THEN [ok |-> TRUE, pem |-> Pem("pub", pub.alg, pub.mat, pwd)]
    ELSE [ok |-> FALSE, pem |-> Garbage]

\* utils.AEStoEncryptedPEM(raw, pwd)
AEStoEncryptedPEM(raw, pwd) ==
    IF raw # <<>>
    THEN [ok |-> TRUE, pem |-> Pem("aes", "none", raw, pwd)]
    ELSE [ok |-> FALSE, pem |-> Garbage]

\* utils.SM4EncryptPEMBlock("SM4 PRIVATE KEY", key, pwd)
SM4EncryptPEMBlock(key, pwd) ==
    IF key # <<>>
    THEN [ok |-> TRUE, pem |-> Pem("sm4", "none", key, pwd)]
    ELSE [ok |-> FALSE, pem |-> Garbage]

\* utils.PEMtoPrivateKey(raw, pwd): the private key object, or an error
PEMtoPrivateKey(raw, pwd) ==
    IF Opens(raw, pwd) /\ raw.kind = "priv"
    THEN [ok |-> TRUE, alg |-> raw.alg, mat |-> raw.mat]
    ELSE [ok |-> FALSE, alg |-> "none", mat |-> <<>>]

\* utils.PEMtoPublicKey(raw, pwd)
PEMtoPublicKey(raw, pwd) ==
    IF Opens(raw, pwd) /\ raw.kind = "pub"
    THEN [ok |-> TRUE, alg |-> raw.alg, mat |-> raw.mat]
    ELSE [ok |-> FALSE, alg |-> "none", mat |-> <<>>]

\* utils.PEMtoAES(raw, pwd): the bytes of the block, whatever its type
PEMtoAES(raw, pwd) ==
    IF Opens(raw, pwd)
    THEN [ok |-> TRUE,
          mat |-> IF raw.kind \in {"aes", "sm4"} THEN raw.mat ELSE <<48>> \o raw.mat]
    ELSE [ok |-> FALSE, mat |-> <<>>]

-----------------------------------------------------------------------------
(* The file system *)

KsPath == "ks"      \* the directory the callers pass to Init
Cwd == "."          \* the working directory: where a relative file name lands
Dirs == {KsPath, Cwd}
Paths == {"", KsPath}

\* the process umask at the time of a call
Umasks == {0, 18, 63}   \* 0, 022, 077

Bit(n, i) == (n \div (2 ^ i)) % 2

RECURSIVE MaskBits(_, _, _)
MaskBits(mode, umask, i) ==
    IF i < 0 THEN 0
    ELSE (IF Bit(mode, i) = 1 /\ Bit(umask, i) = 0 THEN 2 ^ i ELSE 0)
         + MaskBits(mode, umask, i - 1)

\* the permission bits a create call leaves: perm &^ umask
ApplyUmask(perm, umask) == MaskBits(perm, umask, 8)

File(isDir, size, perm, readable, data) ==
    [isDir |-> isDir, size |-> size, perm |-> perm, readable |-> readable,
     data |-> data]

NoFiles == [n \in {} |-> File(FALSE, 0, 0, FALSE, Garbage)]

Names(d) == DOMAIN fs[d].files

NumFiles == Cardinality(Names(KsPath)) + Cardinality(Names(Cwd))

\* ioutil.ReadDir(path): the entries sorted by name; the callers drop the
\* error, so a missing directory (or the empty path) lists as nothing
ReadDir(path) ==
    IF path \in Dirs /\ fs[path].exists THEN SortNames(Names(path)) ELSE <<>>

\* the directory filepath.Join(path, name) lands in: an empty path leaves the
\* name relative to the working directory
DirOf(path) == IF path = "" THEN Cwd ELSE path

\* ioutil.ReadFile(filepath.Join(dir, name))
ReadFile(dir, name) ==
    LET d == IF dir = "" THEN Cwd ELSE dir
    IN IF d \in Dirs /\ fs[d].exists /\ name \in Names(d)
          /\ ~fs[d].files[name].isDir /\ fs[d].files[name].readable
       THEN [ok |-> TRUE, data |-> fs[d].files[name].data]
       ELSE [ok |-> FALSE, data |-> Garbage]

\* a WriteFile that replaces the content of the directory by the one file
WriteFile_Replace(dir, name, data, perm, umask) ==
    LET d == IF dir = "" THEN Cwd ELSE dir
    IN IF ~(d \in Dirs /\ fs[d].exists) THEN [ok |-> FALSE, fs |-> fs]
       ELSE [ok |-> TRUE,
             fs |-> [fs EXCEPT ![d].files =
                        (name :> File(FALSE, PemLen(data), ApplyUmask(perm, umask),
                                      TRUE, data))]]

\* ioutil.WriteFile(filepath.Join(dir, name), data, perm): create or truncate
\* the file and write data; an existing file keeps its mode
WriteFile(dir, name, data, perm, umask) ==
    LET d == IF dir = "" THEN Cwd ELSE dir
    IN IF ~(d \in Dirs /\ fs[d].exists) THEN [ok |-> FALSE, fs |-> fs]
       ELSE IF name \in Names(d)
       THEN IF fs[d].files[name].isDir \/ ~fs[d].files[name].readable
            THEN [ok |-> FALSE, fs |-> fs]
            ELSE [ok |-> TRUE,
                  fs |-> [fs EXCEPT ![d].files[name].data = data,
                                    ![d].files[name].size = PemLen(data)]]
       ELSE [ok |-> TRUE,
             fs |-> [fs EXCEPT ![d].files =
                        (name :> File(FALSE, PemLen(data), ApplyUmask(perm, umask),
                                      TRUE, data)) @@ @]]

-----------------------------------------------------------------------------
(* fileBasedKeyStore *)

\* the zero value of the struct, as &fileBasedKeyStore{} builds it
ZeroStore == [path |-> "", readOnly |-> FALSE, isOpen |-> FALSE, pwd |-> NoPwd]

\* errors of the key store calls
ErrNone == "none"
ErrEmptyPath == "an invalid KeyStore path provided"
ErrAlreadyInit == "keystore is already initialized"
ErrReadOnly == "read only KeyStore"
ErrNilKey == "invalid key. It must be different from nil"
ErrKeyType == "key type not reconigned"
ErrInvalidSKI == "invalid SKI. Cannot be of zero length"
ErrIO == "file system error"
ErrDecode == "codec error"
ErrEncode == "encoding error"
ErrLoadedType == "loaded key type not recognized"
ErrNotFound == "key with SKI not found"

\* the failures the file system can inject into one Init call
Faults == {"none", "stat", "mkdir", "list"}

\* dirExists(path): os.Stat; a stat error other than not-exist is returned
dirExists(path, fault) ==
    IF fault = "stat" THEN [exists |-> FALSE, err |-> ErrIO]
    ELSE [exists |-> fs[path].exists, err |-> ErrNone]

\* dirEmpty that reports a directory with entries as an error
dirEmpty_ErrWhenNonEmpty(path, fault) ==
    IF fault = "list" \/ Names(path) # {} THEN [empty |-> FALSE, err |-> ErrIO]
    ELSE [empty |-> TRUE, err |-> ErrNone]

\* dirEmpty(path): os.Open and Readdir(1); io.EOF means empty
dirEmpty(path, fault) ==
    IF fault = "list" THEN [empty |-> FALSE, err |-> ErrIO]
    ELSE [empty |-> Names(path) = {}, err |-> ErrNone]

\* createKeyStore asking for 0700 instead of 0755
createKeyStore_OwnerOnly(store, f, fault, umask) ==
    IF f[store.path].exists THEN [err |-> ErrNone, fs |-> f]
    ELSE IF fault = "mkdir" THEN [err |-> ErrIO, fs |-> f]
    ELSE [err |-> ErrNone,
          fs |-> [f EXCEPT ![store.path].exists = TRUE,
                           ![store.path].mode = ApplyUmask(448, umask)]]

\* createKeyStore: os.MkdirAll(ks.path, 0755), which leaves an existing
\* directory as it is
createKeyStore(store, f, fault, umask) ==
    IF f[store.path].exists THEN [err |-> ErrNone, fs |-> f]
    ELSE IF fault = "mkdir" THEN [err |-> ErrIO, fs |-> f]
    ELSE [err |-> ErrNone,
          fs |-> [f EXCEPT ![store.path].exists = TRUE,
                           ![store.path].mode = ApplyUmask(DirPerm, umask)]]

\* openKeyStore that returns nil without setting isOpen
openKeyStore_NoOp(store) == store

\* openKeyStore: sets isOpen
openKeyStore(store) == [store EXCEPT !.isOpen = TRUE]

\* the copy of the password Init keeps: make and copy
Clone(pwd) == [i \in 1..Len(pwd) |-> pwd[i]]

\* Init without the check of isOpen
InitCall_NoOpenCheck(store, pwd, path, readOnly, fault, umask) ==
    IF Len(path) = 0
    THEN [ks |-> store, fs |-> fs, err |-> ErrEmptyPath]
    ELSE
      LET set == [store EXCEPT !.path = path, !.pwd = Clone(pwd),
                               !.readOnly = readOnly]
          ex == dirExists(path, fault)
      IN IF ex.err # ErrNone THEN [ks |-> set, fs |-> fs, err |-> ex.err]
         ELSE IF ~ex.exists
         THEN LET c == createKeyStore(set, fs, fault, umask)
              IN IF c.err # ErrNone THEN [ks |-> set, fs |-> c.fs, err |-> c.err]
                 ELSE [ks |-> openKeyStore(set), fs |-> c.fs, err |-> ErrNone]
         ELSE LET em == dirEmpty(path, fault)
              IN IF em.err # ErrNone THEN [ks |-> set, fs |-> fs, err |-> em.err]
                 ELSE IF em.empty
                 THEN LET c == createKeyStore(set, fs, fault, umask)
                      IN IF c.err # ErrNone
                         THEN [ks |-> set, fs |-> c.fs, err |-> c.err]
                         ELSE [ks |-> openKeyStore(set), fs |-> c.fs, err |-> ErrNone]
                 ELSE [ks |-> openKeyStore(set), fs |-> fs, err |-> ErrNone]

\* Init(pwd, path, readOnly) on the instance store: the instance and the file
\* system it leaves, and the error it returns
InitCall(store, pwd, path, readOnly, fault, umask) ==
    IF Len(path) = 0
    THEN [ks |-> store, fs |-> fs, err |-> ErrEmptyPath]
    ELSE IF store.isOpen
    THEN [ks |-> store, fs |-> fs, err |-> ErrAlreadyInit]
    ELSE
      LET set == [store EXCEPT !.path = path, !.pwd = Clone(pwd),
                               !.readOnly = readOnly]
          ex == dirExists(path, fault)
      IN IF ex.err # ErrNone THEN [ks |-> set, fs |-> fs, err |-> ex.err]
         ELSE IF ~ex.exists
         THEN LET c == createKeyStore(set, fs, fault, umask)
              IN IF c.err # ErrNone THEN [ks |-> set, fs |-> c.fs, err |-> c.err]
                 ELSE [ks |-> openKeyStore(set), fs |-> c.fs, err |-> ErrNone]
         ELSE LET em == dirEmpty(path, fault)
              IN IF em.err # ErrNone THEN [ks |-> set, fs |-> fs, err |-> em.err]
                 ELSE IF em.empty
                 THEN LET c == createKeyStore(set, fs, fault, umask)
                      IN IF c.err # ErrNone
                         THEN [ks |-> set, fs |-> c.fs, err |-> c.err]
                         ELSE [ks |-> openKeyStore(set), fs |-> c.fs, err |-> ErrNone]
                 ELSE [ks |-> openKeyStore(set), fs |-> fs, err |-> ErrNone]

\* getPathForAlias(alias, suffix): the file name alias + "_" + suffix
getPathForAlias(alias, suffix) == alias \o Underscore \o suffix

\* getSuffix(alias): the first listed entry whose name starts with alias decides
RECURSIVE SuffixIn(_, _)
SuffixIn(files, alias) ==
    IF files = <<>> THEN SfxNone
    ELSE IF HasPrefix(Head(files), alias)
    THEN IF HasSuffix(Head(files), SfxSk) THEN SfxSk
         ELSE IF HasSuffix(Head(files), SfxPk) THEN SfxPk
         ELSE IF HasSuffix(Head(files), SfxKey) THEN SfxKey
         ELSE SfxNone
    ELSE SuffixIn(Tail(files), alias)

getSuffix(store, alias) == SuffixIn(ReadDir(store.path), alias)

\* what GetKey returns (ok, key, err), with the file names it handed to
\* ReadFile and whether it went through searchKeystoreForSKI
Result(ok, key, err, reads, scan) ==
    [ok |-> ok, key |-> key, err |-> err, reads |-> reads, scan |-> scan,
     ski |-> <<>>]

\* the error of line 749, which carries the SKI asked for
NotFound(ski, reads) ==
    [Result(FALSE, NoKey, ErrNotFound, reads, TRUE) EXCEPT !.ski = ski]

\* the size test of the scan
TooLarge_AtLimit(f) == f.size >= SizeLimit

TooLarge(f) == f.size > SizeLimit

\* the loop of the scan without the comparison of k.SKI() with ski
RECURSIVE SearchIn_NoSkiCheck(_, _, _, _)
SearchIn_NoSkiCheck(files, store, ski, reads) ==
    IF files = <<>> THEN NotFound(ski, reads)
    ELSE
      LET n == Head(files)
          f == fs[store.path].files[n]
          rest == Tail(files)
      IN IF f.isDir THEN SearchIn_NoSkiCheck(rest, store, ski, reads)
         ELSE IF TooLarge(f) THEN SearchIn_NoSkiCheck(rest, store, ski, reads)
         ELSE
           LET raw == ReadFile(store.path, n)
               key == PEMtoPrivateKey(raw.data, store.pwd)
               k == IF key.alg = "ecdsa"
                    THEN [variant |-> "ecdsaPriv", mat |-> key.mat]
                    ELSE [variant |-> "sm2Priv", mat |-> key.mat]
           IN IF ~raw.ok THEN SearchIn_NoSkiCheck(rest, store, ski, reads \cup {n})
              ELSE IF ~key.ok THEN SearchIn_NoSkiCheck(rest, store, ski, reads \cup {n})
              ELSE IF key.alg \notin {"ecdsa", "sm2"}
              THEN SearchIn_NoSkiCheck(rest, store, ski, reads \cup {n})
              ELSE Result(TRUE, k, ErrNone, reads \cup {n}, TRUE)

\* searchKeystoreForSKI(ski): the loop over the listing
RECURSIVE SearchIn(_, _, _, _)
SearchIn(files, store, ski, reads) ==
    IF files = <<>> THEN NotFound(ski, reads)
    ELSE
      LET n == Head(files)
          f == fs[store.path].files[n]
          rest == Tail(files)
      IN IF f.isDir THEN SearchIn(rest, store, ski, reads)
         ELSE IF TooLarge(f) THEN SearchIn(rest, store, ski, reads)
         ELSE
           LET raw == ReadFile(store.path, n)
               key == PEMtoPrivateKey(raw.data, store.pwd)
               k == IF key.alg = "ecdsa"
                    THEN [variant |-> "ecdsaPriv", mat |-> key.mat]
                    ELSE [variant |-> "sm2Priv", mat |-> key.mat]
           IN IF ~raw.ok THEN SearchIn(rest, store, ski, reads \cup {n})
              ELSE IF ~key.ok THEN SearchIn(rest, store, ski, reads \cup {n})
              ELSE IF key.alg \notin {"ecdsa", "sm2"}
              THEN SearchIn(rest, store, ski, reads \cup {n})
              ELSE IF SKI(k) # ski THEN SearchIn(rest, store, ski, reads \cup {n})
              ELSE Result(TRUE, k, ErrNone, reads \cup {n}, TRUE)

searchKeystoreForSKI(store, ski) == SearchIn(ReadDir(store.path), store, ski, {})

\* loadKey(alias): the file alias_key through PEMtoAES
loadKey(store, alias) ==
    LET n == getPathForAlias(alias, SfxKey)
        raw == ReadFile(store.path, n)
        key == PEMtoAES(raw.data, store.pwd)
    IN IF ~raw.ok THEN Result(FALSE, NoKey, ErrIO, {n}, FALSE)
       ELSE IF ~key.ok THEN Result(FALSE, NoKey, ErrDecode, {n}, FALSE)
       ELSE Result(TRUE, [variant |-> "aes", mat |-> key.mat], ErrNone, {n}, FALSE)

\* loadSM4Key(alias): the file alias_sm4key through PEMtoAES
loadSM4Key(store, alias) ==
    LET n == getPathForAlias(alias, SfxSm4Key)
        raw == ReadFile(store.path, n)
        key == PEMtoAES(raw.data, store.pwd)
    IN IF ~raw.ok THEN Result(FALSE, NoKey, ErrIO, {n}, FALSE)
       ELSE IF ~key.ok THEN Result(FALSE, NoKey, ErrDecode, {n}, FALSE)
       ELSE Result(TRUE, [variant |-> "sm4", mat |-> key.mat], ErrNone, {n}, FALSE)

\* loadPrivateKey(alias) and the type switch of GetKey on what it returns
loadPrivateKey(store, alias) ==
    LET n == getPathForAlias(alias, SfxSk)
        raw == ReadFile(store.path, n)
        key == PEMtoPrivateKey(raw.data, store.pwd)
    IN IF ~raw.ok THEN Result(FALSE, NoKey, ErrIO, {n}, FALSE)
       ELSE IF ~key.ok THEN Result(FALSE, NoKey, ErrDecode, {n}, FALSE)
       ELSE IF key.alg = "ecdsa"
       THEN Result(TRUE, [variant |-> "ecdsaPriv", mat |-> key.mat], ErrNone, {n}, FALSE)
       ELSE IF key.alg = "sm2"
       THEN Result(TRUE, [variant |-> "sm2Priv", mat |-> key.mat], ErrNone, {n}, FALSE)
       ELSE Result(FALSE, NoKey, ErrLoadedType, {n}, FALSE)

\* loadPublicKey(alias) and the type switch of GetKey on what it returns
loadPublicKey(store, alias) ==
    LET n == getPathForAlias(alias, SfxPk)
        raw == ReadFile(store.path, n)
        key == PEMtoPublicKey(raw.data, store.pwd)
    IN IF ~raw.ok THEN Result(FALSE, NoKey, ErrIO, {n}, FALSE)
       ELSE IF ~key.ok THEN Result(FALSE, NoKey, ErrDecode, {n}, FALSE)
       ELSE IF key.alg = "ecdsa"
       THEN Result(TRUE, [variant |-> "ecdsaPub", mat |-> key.mat], ErrNone, {n}, FALSE)
       ELSE IF key.alg = "sm2"
       THEN Result(TRUE, [variant |-> "sm2Pub", mat |-> key.mat], ErrNone, {n}, FALSE)
       ELSE Result(FALSE, NoKey, ErrLoadedType, {n}, FALSE)

\* GetKey(ski) on the instance store
GetKeyCall(store, ski) ==
    IF Len(ski) = 0 THEN Result(FALSE, NoKey, ErrInvalidSKI, {}, FALSE)
    ELSE
      LET alias == EncodeToString(ski)
          suffix == getSuffix(store, alias)
      IN CASE suffix = SfxKey -> loadKey(store, alias)
           [] suffix = SfxSm4Key -> loadSM4Key(store, alias)
           [] suffix = SfxSk -> loadPrivateKey(store, alias)
           [] suffix = SfxPk -> loadPublicKey(store, alias)
           [] OTHER -> searchKeystoreForSKI(store, ski)

\* the object a key wraps (privKey, pubKey)
Inner(k) == [alg |-> Family(k.variant), mat |-> k.mat]

Stored(enc, path, suffix, k, umask) ==
    IF ~enc.ok THEN [err |-> ErrEncode, fs |-> fs]
    ELSE LET w == WriteFile(path, getPathForAlias(EncodeToString(SKI(k)), suffix),
                            enc.pem, FilePerm, umask)
         IN IF w.ok THEN [err |-> ErrNone, fs |-> w.fs]
            ELSE [err |-> ErrIO, fs |-> fs]

\* storePrivateKey(alias, privateKey)
storePrivateKey(store, k, umask) ==
    Stored(PrivateKeyToPEM(Inner(k), store.pwd), store.path, SfxSk, k, umask)

\* storePublicKey writing under the suffix of the private keys
storePublicKey_SkSuffix(store, k, umask) ==
    Stored(PublicKeyToPEM(Inner(k), store.pwd), store.path, SfxSk, k, umask)

\* storePublicKey(alias, publicKey)
storePublicKey(store, k, umask) ==
    Stored(PublicKeyToPEM(Inner(k), store.pwd), store.path, SfxPk, k, umask)

\* storeKey(alias, key)
storeKey(store, k, umask) ==
    Stored(AEStoEncryptedPEM(k.mat, store.pwd), store.path, SfxKey, k, umask)

\* storeSm4Key(alias, key)
storeSm4Key(store, k, umask) ==
    Stored(SM4EncryptPEMBlock(k.mat, store.pwd), store.path, SfxSm4Key, k, umask)

\* StoreKey with the nil check moved in front of the read-only check
StoreKeyCall_NilFirst(store, k, umask) ==
    IF k = NilKey THEN [err |-> ErrNilKey, fs |-> fs]
    ELSE IF store.readOnly /\ k.variant = "other" THEN [err |-> ErrReadOnly, fs |-> fs]
    ELSE CASE k.variant \in {"ecdsaPriv", "sm2Priv"} -> storePrivateKey(store, k, umask)
           [] k.variant \in {"ecdsaPub", "sm2Pub"} -> storePublicKey(store, k, umask)
           [] k.variant = "aes" -> storeKey(store, k, umask)
           [] k.variant = "sm4" -> storeSm4Key(store, k, umask)
           [] OTHER -> [err |-> ErrKeyType, fs |-> fs]

\* StoreKey whose type switch has no default branch: a key of another type
\* falls through to the final return of the nil error
StoreKeyCall_SilentDefault(store, k, umask) ==
    IF store.readOnly THEN [err |-> ErrReadOnly, fs |-> fs]
    ELSE IF k = NilKey THEN [err |-> ErrNilKey, fs |-> fs]
    ELSE CASE k.variant \in {"ecdsaPriv", "sm2Priv"} -> storePrivateKey(store, k, umask)
           [] k.variant \in {"ecdsaPub", "sm2Pub"} -> storePublicKey(store, k, umask)
           [] k.variant = "aes" -> storeKey(store, k, umask)
           [] k.variant = "sm4" -> storeSm4Key(store, k, umask)
           [] OTHER -> [err |-> ErrNone, fs |-> fs]

\* StoreKey(k) on the instance store
StoreKeyCall(store, k, umask) ==
    IF store.readOnly THEN [err |-> ErrReadOnly, fs |-> fs]
    ELSE IF k = NilKey THEN [err |-> ErrNilKey, fs |-> fs]
    ELSE CASE k.variant \in {"ecdsaPriv", "sm2Priv"} -> storePrivateKey(store, k, umask)
           [] k.variant \in {"ecdsaPub", "sm2Pub"} -> storePublicKey(store, k, umask)
           [] k.variant = "aes" -> storeKey(store, k, umask)
           [] k.variant = "sm4" -> storeSm4Key(store, k, umask)
           [] OTHER -> [err |-> ErrKeyType, fs |-> fs]

-----------------------------------------------------------------------------
(* Files that reach the directory from outside the key store *)

ExtNames == {<<97>>, <<97, 49, 48, 50>>, <<98>>}    \* "a", "a102", "b"

SmallPriv(alg, enc) ==
    File(FALSE, PemLen(Pem("priv", alg, Bytes(SM4KeyLen, 1), enc)), FilePerm, TRUE,
         Pem("priv", alg, Bytes(SM4KeyLen, 1), enc))

ExtFiles ==
    {SmallPriv(alg, enc) : alg \in {"ecdsa", "sm2"}, enc \in {NoPwd, <<1>>}}
    \cup {[SmallPriv("ecdsa", NoPwd) EXCEPT !.size = sz] : sz \in {SizeLimit, SizeLimit + 1}}
    \cup {[SmallPriv("ecdsa", NoPwd) EXCEPT !.readable = FALSE],
          SmallPriv("rsa", NoPwd),
          File(TRUE, 4096, DirPerm, TRUE, Garbage),
          File(FALSE, 300, FilePerm, TRUE, Garbage),
          File(FALSE, 300, FilePerm, TRUE, Pem("pub", "ecdsa", Bytes(SM4KeyLen, 1), NoPwd))}

-----------------------------------------------------------------------------
(* The calls *)

NoImp == [op |-> "none", csp |-> "none", raw |-> <<>>, ephemeral |-> FALSE,
          ret |-> <<>>, writes |-> 0]

\* what is kept of a call: its name, its arguments (key, ski, path), the umask
\* under which it created a directory, the error and the key it returned,
\* and what it found and did: the directory was empty, Init had been called
\* before, the call created the directory
Call(op, key, ski, path, umask, err, res, preEmpty, again, created) ==
    [op |-> op, key |-> key, ski |-> ski, path |-> path, umask |-> umask,
     err |-> err, res |-> res, preEmpty |-> preEmpty, again |-> again,
     created |-> created]

NoResult == Result(FALSE, NoKey, ErrNone, {}, FALSE)

NoCall == Call("none", NoKey, <<>>, "", 0, ErrNone, NoResult,
               FALSE, FALSE, FALSE)

SkiArgs == {SKI(k) : k \in Keys} \cup {<<>>, <<161>>, <<9, 9>>}

\* ReadOnly()
ReadOnly(store) == store.readOnly

\* the array behind ks.pwd when Init keeps the caller's slice itself
CloneBacking_CallerSlice(pwd) == "caller"

\* the array behind ks.pwd after clone := make([]byte, len(pwd)): a new one,
\* which the store alone refers to
CloneBacking(pwd) == "store"

\* the threads that call into one instance
Threads == 1..NumThreads

\* a thread outside any call
IdleThread ==
    [pc |-> "idle", op |-> "none", pwd |-> NoPwd, path |-> "", readOnly |-> FALSE,
     key |-> NoKey, ski |-> <<>>, name |-> <<>>, data |-> Garbage,
     suffix |-> SfxNone, err |-> ErrNone, res |-> NoResult, partial |-> FALSE]

\* m is the holder of ks.m, 0 when the mutex is free
NoThreads == [m |-> 0, th |-> [t \in Threads |-> IdleThread]]

\* no buffer has been passed to Init
NoMem == [pwdBuf |-> NoPwd, pwdBacking |-> "none", opened |-> ZeroStore]

InitState ==
    /\ mem = NoMem
    /\ conc = NoThreads
    /\ ks = ZeroStore
    /\ fs \in {[d \in Dirs |-> [exists |-> (d = Cwd) \/ e, mode |-> DirPerm,
                                files |-> NoFiles]] : e \in BOOLEAN}
    /\ last = NoCall
    /\ initCalled = FALSE
    /\ initOk = FALSE
    /\ imp = NoImp

\* ks.Init(pwd, path, readOnly)
Init(pwd, path, readOnly, fault, umask) ==
    LET r == InitCall(ks, pwd, path, readOnly, fault, umask)
    IN /\ ks' = r.ks
       /\ fs' = r.fs
       /\ last' = Call("Init", NoKey, <<>>, path, IF r.fs # fs THEN umask ELSE 0, r.err,
                       NoResult, FALSE, initCalled, r.fs # fs)
       /\ initCalled' = TRUE
       /\ initOk' = (initOk \/ r.err = ErrNone)
       /\ UNCHANGED <<imp, conc, mem>>

\* NewFileBasedKeyStore(pwd, path, readOnly): a new instance, and Init on it
NewFileBasedKeyStore(pwd, path, readOnly, fault, umask) ==
    LET r == InitCall(ZeroStore, pwd, path, readOnly, fault, umask)
    IN /\ ks' = r.ks
       /\ fs' = r.fs
       /\ last' = Call("New", NoKey, <<>>, path, IF r.fs # fs THEN umask ELSE 0, r.err,
                       NoResult, FALSE, FALSE, r.fs # fs)
       /\ initCalled' = TRUE
       /\ initOk' = (r.err = ErrNone)
       /\ UNCHANGED <<imp, conc, mem>>

\* ks.StoreKey(k)
StoreKey(k, umask) ==
    LET r == StoreKeyCall(ks, k, umask)
    IN /\ Cardinality(DOMAIN r.fs[KsPath].files) + Cardinality(DOMAIN r.fs[Cwd].files)
            <= MaxFiles
       /\ fs' = r.fs
       /\ last' = Call("StoreKey", k, <<>>, "", 0, r.err, NoResult,
                       Names(KsPath) = {}, FALSE, FALSE)
       /\ UNCHANGED <<ks, initCalled, initOk, imp, conc, mem>>

\* ks.GetKey(ski)
GetKey(ski) ==
    LET r == GetKeyCall(ks, ski)
    IN /\ last' = Call("GetKey", NoKey, ski, "", 0, r.err, r,
                       FALSE, FALSE, FALSE)
       /\ UNCHANGED <<ks, fs, initCalled, initOk, imp, conc, mem>>

\* a file or subdirectory is put into the key store directory from outside
DropFile(n, f) ==
    /\ fs[KsPath].exists
    /\ n \notin Names(KsPath)
    /\ NumFiles < MaxFiles
    /\ fs' = [fs EXCEPT ![KsPath].files = (n :> f) @@ @]
    /\ last' = [NoCall EXCEPT !.op = "DropFile"]
    /\ UNCHANGED <<ks, initCalled, initOk, imp, conc, mem>>

\* StoreKey and GetKey as a client calls them that opens the store first
OpenStoreKey(k) == ks.isOpen /\ StoreKey(k, 0)
OpenGetKey(ski) == ks.isOpen /\ GetKey(ski)

\* A client that opens the key store before it uses it, on a file system
\* that does not fail: it calls StoreKey and GetKey on an open instance only.
NextStore ==
    \/ \E pwd \in Pwds, path \in Paths, ro \in BOOLEAN :
          Init(pwd, path, ro, "none", 0)
    \/ \E pwd \in Pwds, path \in Paths, ro \in BOOLEAN :
          NewFileBasedKeyStore(pwd, path, ro, "none", 0)
    \/ \E k \in KeyArgs : OpenStoreKey(k)
    \/ \E ski \in SkiArgs : OpenGetKey(ski)

Spec == InitState /\ [][NextStore]_vars

\* Any client, on a file system that can fail: Init with every argument and
\* every injected failure, StoreKey and GetKey in any state of the instance,
\* and files that appear in the directory from outside.
InitKeys == {[variant |-> "ecdsaPriv", mat |-> Bytes(SM4KeyLen, 1)], NilKey}
InitSkis == {SKI([variant |-> "ecdsaPriv", mat |-> Bytes(SM4KeyLen, 1)]), <<>>}
InitExtFiles == {SmallPriv("ecdsa", NoPwd), File(TRUE, 4096, DirPerm, TRUE, Garbage)}

NextInit ==
    \/ \E pwd \in Pwds, path \in Paths, ro \in BOOLEAN, fault \in Faults, um \in Umasks :
          Init(pwd, path, ro, fault, um)
    \/ \E pwd \in Pwds, path \in Paths, ro \in BOOLEAN, fault \in Faults, um \in Umasks :
          NewFileBasedKeyStore(pwd, path, ro, fault, um)
    \/ \E k \in InitKeys, um \in Umasks : StoreKey(k, um)
    \/ \E ski \in InitSkis : GetKey(ski)
    \/ \E f \in InitExtFiles : DropFile(<<97>>, f)

SpecInit == InitState /\ [][NextInit]_vars

\* A client of an open key store whose directory also receives files from
\* outside: key files that do not follow the naming convention, files at and
\* above the size limit of the scan, unreadable files, subdirectories.
ScanPwds == {NoPwd, <<1>>}
ScanKeys == {[variant |-> "ecdsaPriv", mat |-> Bytes(SM4KeyLen, 1)],
             [variant |-> "sm4", mat |-> Bytes(SM4KeyLen, 1)]}
ScanSkis == {<<161, 2>>, <<178, 2>>, <<9, 9>>}

NextScan ==
    \/ \E pwd \in ScanPwds : Init(pwd, KsPath, FALSE, "none", 0)
    \/ \E k \in ScanKeys : OpenStoreKey(k)
    \/ \E ski \in ScanSkis : OpenGetKey(ski)
    \/ \E n \in ExtNames, f \in ExtFiles : DropFile(n, f)

SpecScan == InitState /\ [][NextScan]_vars

-----------------------------------------------------------------------------
(* The key importers *)

\* raw material: the dynamic type of the interface value, and for a byte
\* slice its bytes, for a pointer whether it is nil, for a public key object
\* its point, for a certificate the public key object it embeds
RawValue(type, isNil, bytes, pk) ==
    [type |-> type, isNil |-> isNil, bytes |-> bytes, pk |-> pk]

NoPk == [type |-> "none", isNil |-> TRUE, mat |-> <<>>]
Pk(type, isNil, mat) == [type |-> type, isNil |-> isNil, mat |-> mat]

Seeds == 1..(MaxSeed + 1)

PkObjects ==
    {Pk(t, FALSE, Bytes(2, sd)) : t \in {"sm2pub", "ecdsapub", "rsapub"}, sd \in Seeds}
    \cup {Pk("sm2pub", TRUE, <<>>), NoPk}

\* DER input as the parsers see it: the tag of a SEQUENCE, then what the
\* structure holds (an SM2 public key info, an SM2 private key info), then
\* the bytes of the key
DerSequence == 48
DerPublic == 1
DerPrivate == 2

RawValues ==
    {RawValue("nil", TRUE, <<>>, NoPk),
     RawValue("string", FALSE, <<>>, NoPk),
     RawValue("bytes", TRUE, <<>>, NoPk),
     RawValue("cert", TRUE, <<>>, NoPk)}
    \cup {RawValue("bytes", FALSE, Bytes(n, sd), NoPk) :
            n \in 0..(SM4KeyLen + 2), sd \in Seeds}
    \cup {RawValue("bytes", FALSE, <<DerSequence, kind>> \o Bytes(2, sd), NoPk) :
            kind \in {DerPublic, DerPrivate}, sd \in Seeds}
    \cup {RawValue(pk.type, pk.isNil, <<>>, pk) : pk \in PkObjects \ {NoPk}}
    \cup {RawValue("cert", FALSE, <<>>, pk) : pk \in PkObjects}

ErrExpectedBytes == "invalid raw material, expected byte array"
ErrNilRaw == "invalid raw material, it must not be nil"
ErrKeyLength == "invalid Key Length, must be 16 bytes"
ErrExpectedSM2Pub == "invalid raw material. Expected *sm2.PublicKey"
ErrExpectedCert == "Invalid raw material. Expected *x509.Certificate."
ErrCertKeyType == "Certificate's public key type not recognized"
ErrPanic == "nil pointer dereference"
ErrExpectedBytesPKIX == "Invalid raw material. Expected byte array."
ErrEmptyRawPKIX == "Invalid raw. It must not be nil."
ErrExpectedBytesPriv == "Invalid raw material for SM2 private key import,expected byte array"
ErrEmptyRawPriv == "invalid raw, it must not be nil"
ErrParse == "Failed converting PKIX to SM2 public key"
ErrAsn1 == "asn1: structure error"
ErrNotSM2 == "not an SM2 key of this kind"
ErrDouble == "test double: no key"

\* what KeyImport returns: (key, nil) or (nil, err); calls lists the inner
\* KeyImport calls made through the registry
\* cause is the error of the parser that a parse failure wraps
\* shares: the key holds the slice it was given, not a copy of its bytes
Imported(key, calls) ==
    [ok |-> TRUE, key |-> key, exportable |-> FALSE, err |-> ErrNone,
     cause |-> ErrNone, calls |-> calls, shares |-> FALSE]
ImportedSlice(key) ==
    [ok |-> TRUE, key |-> key, exportable |-> FALSE, err |-> ErrNone,
     cause |-> ErrNone, calls |-> <<>>, shares |-> TRUE]
Failed(err) ==
    [ok |-> FALSE, key |-> NoKey, exportable |-> FALSE, err |-> err,
     cause |-> ErrNone, calls |-> <<>>, shares |-> FALSE]
FailedParse(err, cause) ==
    [ok |-> FALSE, key |-> NoKey, exportable |-> FALSE, err |-> err,
     cause |-> cause, calls |-> <<>>, shares |-> FALSE]

\* parsePKIXSM2PublicKey(der) and parsePKCS8SM2PrivateKey(der): the key bytes
\* of a well-formed structure of the kind asked for, or the parser's error
ParseDer(der, kind) ==
    IF Len(der) < 3 \/ der[1] # DerSequence
    THEN [ok |-> FALSE, mat |-> <<>>, err |-> ErrAsn1]
    ELSE IF der[2] # kind THEN [ok |-> FALSE, mat |-> <<>>, err |-> ErrNotSM2]
    ELSE [ok |-> TRUE, mat |-> SubSeq(der, 3, Len(der)), err |-> ErrNone]

parsePKIXSM2PublicKey(der) == ParseDer(der, DerPublic)
parsePKCS8SM2PrivateKey(der) == ParseDer(der, DerPrivate)

\* sm2PKIXPublicKeyImportOptsKeyImporter.KeyImport
Sm2PKIXKeyImport(raw, ephemeral) ==
    IF raw.type # "bytes" THEN Failed(ErrExpectedBytesPKIX)
    ELSE IF Len(raw.bytes) = 0 THEN Failed(ErrEmptyRawPKIX)
    ELSE LET sm2PK == parsePKIXSM2PublicKey(raw.bytes)
         IN IF ~sm2PK.ok THEN FailedParse(ErrParse, sm2PK.err)
            ELSE Imported([variant |-> "sm2Pub", mat |-> sm2PK.mat], <<>>)

\* sm2PrivateKeyImportOptsKeyImporter.KeyImport
Sm2PrivateKeyImport(raw, ephemeral) ==
    IF raw.type # "bytes" THEN Failed(ErrExpectedBytesPriv)
    ELSE IF Len(raw.bytes) = 0 THEN Failed(ErrEmptyRawPriv)
    ELSE LET sm2Priv == parsePKCS8SM2PrivateKey(raw.bytes)
         IN IF ~sm2Priv.ok THEN FailedParse(ErrParse, sm2Priv.err)
            ELSE Imported([variant |-> "sm2Priv", mat |-> sm2Priv.mat], <<>>)

\* the SM4 importer with a lower bound on the length, cutting to 16 bytes
Sm4KeyImport_AtLeast(raw, ephemeral) ==
    IF raw.type # "bytes" THEN Failed(ErrExpectedBytes)
    ELSE IF raw.isNil THEN Failed(ErrNilRaw)
    ELSE IF Len(raw.bytes) < SM4KeyLen THEN Failed(ErrKeyLength)
    ELSE Imported([variant |-> "sm4", mat |-> SubSeq(raw.bytes, 1, SM4KeyLen)], <<>>)

\* sm4ImportKeyOptsKeyImporter.KeyImport: the key is built around sm4Raw
\* itself, &sm4PrivateKey{sm4Raw, false}
Sm4KeyImport(raw, ephemeral) ==
    IF raw.type # "bytes" THEN Failed(ErrExpectedBytes)
    ELSE IF raw.isNil THEN Failed(ErrNilRaw)
    ELSE IF Len(raw.bytes) # SM4KeyLen THEN Failed(ErrKeyLength)
    ELSE ImportedSlice([variant |-> "sm4", mat |-> raw.bytes])

\* sm2GoPublicKeyImportOptsKeyImporter.KeyImport: a nil *sm2.PublicKey passes
\* the type assertion and is wrapped as it is
Sm2GoKeyImport(raw, ephemeral) ==
    IF raw.type # "sm2pub" THEN Failed(ErrExpectedSM2Pub)
    ELSE Imported([variant |-> "sm2Pub", mat |-> raw.pk.mat], <<>>)

\* The CSP instances: the provider as the package builds it, and a provider
\* whose registry holds a test double for the import of SM2 public key objects
GmCsp == "gm"
DoubleCsp == "double"
Csps == {GmCsp, DoubleCsp}

\* the test double: it marks the key it returns, and fails for a nil pointer
Sm2GoDoubleKeyImport(raw, ephemeral) ==
    IF raw.type # "sm2pub" \/ raw.isNil THEN Failed(ErrDouble)
    ELSE Imported([variant |-> "sm2Pub", mat |-> <<0>> \o raw.pk.mat], <<>>)

\* csp.KeyImporters: the importer registered for an options type
KeyImporters(csp, optsType) ==
    CASE optsType = "SM4ImportKeyOpts" -> "sm4"
      [] optsType = "SM2PublicKeyImportOpts" -> "sm2PKIX"
      [] optsType = "SM2PrivateKeyImportOpts" -> "sm2Priv"
      [] optsType = "SM2GoPublicKeyImportOpts" ->
            IF csp = DoubleCsp THEN "sm2GoDouble" ELSE "sm2Go"
      [] optsType = "X509PublicKeyImportOpts" -> "x509"
      [] OTHER -> "none"

\* the certificate importer a CSP registers: it keeps the CSP in its field
X509Importer(csp) == [bccsp |-> csp]

\* KeyImport of a registered importer other than the certificate importer
InnerKeyImport(importer, raw, ephemeral) ==
    CASE importer = "sm4" -> Sm4KeyImport(raw, ephemeral)
      [] importer = "sm2PKIX" -> Sm2PKIXKeyImport(raw, ephemeral)
      [] importer = "sm2Priv" -> Sm2PrivateKeyImport(raw, ephemeral)
      [] importer = "sm2Go" -> Sm2GoKeyImport(raw, ephemeral)
      [] importer = "sm2GoDouble" -> Sm2GoDoubleKeyImport(raw, ephemeral)
      [] OTHER -> Failed(ErrPanic)

\* the certificate importer taking every elliptic-curve key for an SM2 key
X509KeyImport_AnyCurve(ki, raw, ephemeral) ==
    IF raw.type # "cert" THEN Failed(ErrExpectedCert)
    ELSE IF raw.isNil THEN Failed(ErrPanic)
    ELSE IF raw.pk.type \in {"sm2pub", "ecdsapub"}
    THEN Imported([variant |-> "sm2Pub", mat |-> raw.pk.mat], <<>>)
    ELSE Failed(ErrCertKeyType)

\* the certificate importer going through the registry of the package's
\* provider instead of the one in its field, with options that are not
\* ephemeral
X509KeyImport_OwnRegistry(ki, raw, ephemeral) ==
    IF raw.type # "cert" THEN Failed(ErrExpectedCert)
    ELSE IF raw.isNil THEN Failed(ErrPanic)
    ELSE IF raw.pk.type = "sm2pub"
    THEN LET arg == RawValue(raw.pk.type, raw.pk.isNil, <<>>, raw.pk)
             to == KeyImporters(GmCsp, "SM2GoPublicKeyImportOpts")
             r == InnerKeyImport(to, arg, FALSE)
         IN [r EXCEPT !.calls = <<[importer |-> to, raw |-> arg,
                                   ephemeral |-> FALSE]>>]
    ELSE Failed(ErrCertKeyType)

\* x509PublicKeyImportOptsKeyImporter.KeyImport: the type switch on the
\* certificate's PublicKey, and the call through ki.bccsp.KeyImporters with
\* options whose Temporary is opts.Ephemeral(); reading PublicKey of a nil
\* certificate pointer panics
X509KeyImport(ki, raw, ephemeral) ==
    IF raw.type # "cert" THEN Failed(ErrExpectedCert)
    ELSE IF raw.isNil THEN Failed(ErrPanic)
    ELSE IF raw.pk.type = "sm2pub"
    THEN LET arg == RawValue(raw.pk.type, raw.pk.isNil, <<>>, raw.pk)
             to == KeyImporters(ki.bccsp, "SM2GoPublicKeyImportOpts")
             r == InnerKeyImport(to, arg, ephemeral)
         IN [r EXCEPT !.calls = <<[importer |-> to, raw |-> arg,
                                   ephemeral |-> ephemeral]>>]
    ELSE Failed(ErrCertKeyType)

\* KeyImport of the importer a CSP has registered under a name
CspKeyImport(csp, importer, raw, ephemeral) ==
    IF importer = "x509" THEN X509KeyImport(X509Importer(csp), raw, ephemeral)
    ELSE InnerKeyImport(importer, raw, ephemeral)

\* KeyImport of an importer of the package's provider
KeyImport(importer, raw, ephemeral) == CspKeyImport(GmCsp, importer, raw, ephemeral)

Importers == {"sm4", "sm2PKIX", "sm2Priv", "sm2Go", "x509"}

\* a call of KeyImport(raw, opts) on one of the importers
Import(importer, raw, ephemeral) ==
    /\ imp' = [op |-> importer, csp |-> GmCsp, raw |-> raw, ephemeral |-> ephemeral,
               ret |-> KeyImport(importer, raw, ephemeral), writes |-> 0]
    /\ UNCHANGED <<ks, fs, last, initCalled, initOk, conc, mem>>

\* a call of KeyImport(raw, opts) with X509PublicKeyImportOpts on a CSP
ImportCertificate(csp, raw, ephemeral) ==
    LET importer == KeyImporters(csp, "X509PublicKeyImportOpts")
    IN /\ imp' = [op |-> importer, csp |-> csp, raw |-> raw,
                  ephemeral |-> ephemeral,
                  ret |-> CspKeyImport(csp, importer, raw, ephemeral),
                  writes |-> 0]
       /\ UNCHANGED <<ks, fs, last, initCalled, initOk, conc, mem>>

NextImport ==
    \E importer \in Importers, raw \in RawValues, e \in BOOLEAN :
        Import(importer, raw, e)

SpecImport == InitState /\ [][NextImport]_vars

\* the caller writes byte b at index i of the slice it passed as raw; a key
\* that holds the slice holds the byte written
OverwriteRaw(i, b) ==
    /\ imp.op # "none"
    /\ imp.raw.type = "bytes"
    /\ i <= Len(imp.raw.bytes)
    /\ imp.raw.bytes[i] # b
    /\ imp.writes < MaxWrites
    /\ imp' = [imp EXCEPT
                 !.raw.bytes[i] = b,
                 !.writes = @ + 1,
                 !.ret.key.mat = IF imp.ret.ok /\ imp.ret.shares
                                 THEN [@ EXCEPT ![i] = b] ELSE @]
    /\ UNCHANGED <<ks, fs, last, initCalled, initOk, conc, mem>>

\* the indices and the bytes the callers write
WriteAt == {1, SM4KeyLen}
WriteBytes == {0}

\* Byte slices handed to the SM4 importer by callers that go on using them
NextBuffer ==
    \/ \E raw \in RawValues, e \in BOOLEAN : Import("sm4", raw, e)
    \/ \E i \in WriteAt, b \in WriteBytes : OverwriteRaw(i, b)

SpecBuffer == InitState /\ [][NextBuffer]_vars

\* Certificates handed to the providers, the one with the test double included
NextRegistry ==
    \E csp \in Csps, raw \in RawValues, e \in BOOLEAN :
        ImportCertificate(csp, raw, e)

SpecRegistry == InitState /\ [][NextRegistry]_vars

-----------------------------------------------------------------------------
(* A caller that keeps the password buffer it has passed to Init, and       *)
(* writes into it afterwards.                                              *)

\* ks.Init(pwd, path, readOnly) by a caller that keeps pwd: when the call gets
\* as far as the assignment of ks.pwd, the buffer and the array behind ks.pwd
\* are remembered, and when it returns nil, its arguments
InitKeepingBuffer(pwd, path, readOnly) ==
    LET r == InitCall(ks, pwd, path, readOnly, "none", 0)
        assigned == Len(path) # 0 /\ ~ks.isOpen
    IN /\ ks' = r.ks
       /\ fs' = r.fs
       /\ last' = Call("Init", NoKey, <<>>, path, 0, r.err, NoResult, FALSE,
                       initCalled, r.fs # fs)
       /\ initCalled' = TRUE
       /\ initOk' = (initOk \/ r.err = ErrNone)
       /\ mem' = [pwdBuf |-> IF assigned THEN pwd ELSE mem.pwdBuf,
                  pwdBacking |-> IF assigned THEN CloneBacking(pwd)
                                 ELSE mem.pwdBacking,
                  opened |-> IF r.err = ErrNone
                             THEN [path |-> path, readOnly |-> readOnly,
                                   isOpen |-> TRUE, pwd |-> pwd]
                             ELSE mem.opened]
       /\ UNCHANGED <<imp, conc>>

\* the caller writes byte b at index i of the buffer; ks.pwd holds the byte
\* when the buffer is the array behind it
OverwritePwd(i, b) ==
    /\ mem.pwdBacking # "none"
    /\ i <= Len(mem.pwdBuf)
    /\ mem.pwdBuf[i] # b
    /\ mem' = [mem EXCEPT !.pwdBuf[i] = b]
    /\ ks' = IF mem.pwdBacking = "caller" THEN [ks EXCEPT !.pwd[i] = b] ELSE ks
    /\ last' = [NoCall EXCEPT !.op = "OverwritePwd"]
    /\ UNCHANGED <<fs, initCalled, initOk, imp, conc>>

ConfigKeys == {[variant |-> "ecdsaPriv", mat |-> Bytes(SM4KeyLen, 1)],
               [variant |-> "sm4", mat |-> Bytes(SM4KeyLen, 1)], NilKey}
ConfigSkis == {SKI(k) : k \in ConfigKeys \ {NilKey}} \cup {<<9, 9>>}

NextConfig ==
    \/ \E pwd \in Pwds, path \in Paths, ro \in BOOLEAN :
          InitKeepingBuffer(pwd, path, ro)
    \/ \E i \in {1}, b \in {0, 2} : OverwritePwd(i, b)
    \/ \E k \in ConfigKeys : StoreKey(k, 0)
    \/ \E ski \in ConfigSkis : GetKey(ski)

SpecConfig == InitState /\ [][NextConfig]_vars

-----------------------------------------------------------------------------
(* Concurrent Init calls on one instance.  Init tests the path, takes ks.m,   *)
(* and runs to its return under the mutex (defer ks.m.Unlock()); each read    *)
(* and write of a field of the instance is a step of its own.                 *)

\* the arguments the threads pass: each thread its own password
ThreadPwd(t) == <<t>>
ConcPaths == {KsPath, Cwd}

Goto(t, pc) == [conc EXCEPT !.th[t].pc = pc]

Return(t, err) == [conc EXCEPT !.th[t].pc = "done", !.th[t].err = err]

\* ks.m.Lock() can return
LockFree_NoMutex(m) == TRUE

LockFree(m) == m = 0

\* Init from the stat of the directory to the return, on the fields as set
InitTail(store, fault, umask) ==
    LET ex == dirExists(store.path, fault)
    IN IF ex.err # ErrNone THEN [ks |-> store, fs |-> fs, err |-> ex.err]
       ELSE IF ~ex.exists
       THEN LET c == createKeyStore(store, fs, fault, umask)
            IN IF c.err # ErrNone THEN [ks |-> store, fs |-> c.fs, err |-> c.err]
               ELSE [ks |-> openKeyStore(store), fs |-> c.fs, err |-> ErrNone]
       ELSE LET em == dirEmpty(store.path, fault)
            IN IF em.err # ErrNone THEN [ks |-> store, fs |-> fs, err |-> em.err]
               ELSE IF em.empty
               THEN LET c == createKeyStore(store, fs, fault, umask)
                    IN IF c.err # ErrNone
                       THEN [ks |-> store, fs |-> c.fs, err |-> c.err]
                       ELSE [ks |-> openKeyStore(store), fs |-> c.fs, err |-> ErrNone]
               ELSE [ks |-> openKeyStore(store), fs |-> fs, err |-> ErrNone]

\* a thread calls ks.Init(pwd, path, readOnly): the test of the path
InitEnter(t, path, readOnly) ==
    /\ conc.th[t].pc = "idle"
    /\ conc' = [conc EXCEPT
                  !.th[t] = [IdleThread EXCEPT
                               !.op = "Init", !.pwd = ThreadPwd(t), !.path = path,
                               !.readOnly = readOnly,
                               !.pc = IF Len(path) = 0 THEN "done" ELSE "lock",
                               !.err = IF Len(path) = 0 THEN ErrEmptyPath ELSE ErrNone]]
    /\ UNCHANGED <<ks, fs, last, initCalled, initOk, imp, mem>>

\* ks.m.Lock()
InitLock(t) ==
    /\ conc.th[t].pc = "lock"
    /\ LockFree(conc.m)
    /\ conc' = [Goto(t, "isOpen") EXCEPT !.m = t]
    /\ UNCHANGED <<ks, fs, last, initCalled, initOk, imp, mem>>

\* if ks.isOpen: return the error, and the deferred Unlock
InitCheckOpen(t) ==
    /\ conc.th[t].pc = "isOpen"
    /\ conc' = IF ks.isOpen
               THEN [Return(t, ErrAlreadyInit) EXCEPT !.m = 0]
               ELSE Goto(t, "path")
    /\ UNCHANGED <<ks, fs, last, initCalled, initOk, imp, mem>>

\* ks.path = path
InitSetPath(t) ==
    /\ conc.th[t].pc = "path"
    /\ ks' = [ks EXCEPT !.path = conc.th[t].path]
    /\ conc' = Goto(t, "pwd")
    /\ UNCHANGED <<fs, last, initCalled, initOk, imp, mem>>

\* ks.pwd = clone
InitSetPwd(t) ==
    /\ conc.th[t].pc = "pwd"
    /\ ks' = [ks EXCEPT !.pwd = Clone(conc.th[t].pwd)]
    /\ conc' = Goto(t, "readOnly")
    /\ UNCHANGED <<fs, last, initCalled, initOk, imp, mem>>

\* ks.readOnly = readOnly
InitSetReadOnly(t) ==
    /\ conc.th[t].pc = "readOnly"
    /\ ks' = [ks EXCEPT !.readOnly = conc.th[t].readOnly]
    /\ conc' = Goto(t, "dir")
    /\ UNCHANGED <<fs, last, initCalled, initOk, imp, mem>>

\* dirExists, createKeyStore, dirEmpty, openKeyStore, and the deferred Unlock
InitDir(t) ==
    /\ conc.th[t].pc = "dir"
    /\ LET r == InitTail(ks, "none", 0)
       IN /\ ks' = r.ks
          /\ fs' = r.fs
          /\ conc' = [Return(t, r.err) EXCEPT !.m = 0]
    /\ UNCHANGED <<last, initCalled, initOk, imp, mem>>

NextConcInit ==
    \/ \E t \in Threads, path \in ConcPaths, ro \in BOOLEAN : InitEnter(t, path, ro)
    \/ \E t \in Threads : InitLock(t)
    \/ \E t \in Threads : InitCheckOpen(t)
    \/ \E t \in Threads : InitSetPath(t)
    \/ \E t \in Threads : InitSetPwd(t)
    \/ \E t \in Threads : InitSetReadOnly(t)
    \/ \E t \in Threads : InitDir(t)

SpecConcInit == InitState /\ [][NextConcInit]_vars

-----------------------------------------------------------------------------
(* Concurrent StoreKey and GetKey calls on an opened instance.  Neither     *)
(* takes ks.m.  ioutil.WriteFile opens the file with O_CREATE and O_TRUNC   *)
(* and then writes; GetKey lists the directory and then reads.              *)

ConcKeys == {[variant |-> "ecdsaPriv", mat |-> Bytes(SM4KeyLen, 1)],
             [variant |-> "sm2Pub", mat |-> Bytes(SM4KeyLen, 1)]}
ConcSkis == {SKI(k) : k \in ConcKeys}

\* StoreKey up to its call of ioutil.WriteFile: the tests of readOnly and of
\* k, the type switch, the encoding; name and data are what it will write
Encoded(enc, suffix, k) ==
    [err |-> IF enc.ok THEN ErrNone ELSE ErrEncode,
     name |-> getPathForAlias(EncodeToString(SKI(k)), suffix),
     data |-> enc.pem]

StoreKeyEncode(store, k) ==
    IF store.readOnly THEN [err |-> ErrReadOnly, name |-> <<>>, data |-> Garbage]
    ELSE IF k = NilKey THEN [err |-> ErrNilKey, name |-> <<>>, data |-> Garbage]
    ELSE CASE k.variant \in {"ecdsaPriv", "sm2Priv"} ->
                Encoded(PrivateKeyToPEM(Inner(k), store.pwd), SfxSk, k)
           [] k.variant \in {"ecdsaPub", "sm2Pub"} ->
                Encoded(PublicKeyToPEM(Inner(k), store.pwd), SfxPk, k)
           [] k.variant = "aes" ->
                Encoded(AEStoEncryptedPEM(k.mat, store.pwd), SfxKey, k)
           [] k.variant = "sm4" ->
                Encoded(SM4EncryptPEMBlock(k.mat, store.pwd), SfxSm4Key, k)
           [] OTHER -> [err |-> ErrKeyType, name |-> <<>>, data |-> Garbage]

\* a file that has been created or truncated and not written yet
IsTruncated(f) == ~f.isDir /\ f.size = 0 /\ f.data = Garbage

\* os.OpenFile(name, O_WRONLY|O_CREATE|O_TRUNC, perm), the first half of
\* ioutil.WriteFile: the file exists and is empty
OpenTruncate(dir, name, perm, umask) ==
    LET d == DirOf(dir)
    IN IF ~(d \in Dirs /\ fs[d].exists) THEN [ok |-> FALSE, fs |-> fs]
       ELSE IF name \in Names(d)
       THEN IF fs[d].files[name].isDir \/ ~fs[d].files[name].readable
            THEN [ok |-> FALSE, fs |-> fs]
            ELSE [ok |-> TRUE,
                  fs |-> [fs EXCEPT ![d].files[name].data = Garbage,
                                    ![d].files[name].size = 0]]
       ELSE [ok |-> TRUE,
             fs |-> [fs EXCEPT ![d].files =
                        (name :> File(FALSE, 0, ApplyUmask(perm, umask), TRUE,
                                      Garbage)) @@ @]]

\* the switch of GetKey on the suffix that getSuffix returned
LoadBySuffix(store, ski, suffix) ==
    LET alias == EncodeToString(ski)
    IN CASE suffix = SfxKey -> loadKey(store, alias)
         [] suffix = SfxSm4Key -> loadSM4Key(store, alias)
         [] suffix = SfxSk -> loadPrivateKey(store, alias)
         [] suffix = SfxPk -> loadPublicKey(store, alias)
         [] OTHER -> searchKeystoreForSKI(store, ski)

\* no thread is inside a call
Quiet == \A t \in Threads : conc.th[t].pc \in {"idle", "done"}

\* the instance is opened before the threads share it
OpenShared == Quiet /\ ~ks.isOpen /\ Init(NoPwd, KsPath, FALSE, "none", 0)

\* a thread calls ks.StoreKey(k): up to the call of ioutil.WriteFile
StoreEnter(t, k) ==
    /\ ks.isOpen
    /\ conc.th[t].pc \in {"idle", "done"}
    /\ LET e == StoreKeyEncode(ks, k)
       IN conc' = [conc EXCEPT
                     !.th[t] = [IdleThread EXCEPT
                                  !.op = "StoreKey", !.key = k, !.name = e.name,
                                  !.data = e.data, !.err = e.err,
                                  !.pc = IF e.err = ErrNone THEN "open" ELSE "done"]]
    /\ UNCHANGED <<ks, fs, last, initCalled, initOk, imp, mem>>

\* ioutil.WriteFile: os.OpenFile creates or truncates the file
StoreOpen(t) ==
    /\ conc.th[t].pc = "open"
    /\ LET o == OpenTruncate(ks.path, conc.th[t].name, FilePerm, 0)
       IN /\ fs' = o.fs
          /\ conc' = IF o.ok THEN Goto(t, "write") ELSE Return(t, ErrIO)
    /\ UNCHANGED <<ks, last, initCalled, initOk, imp, mem>>

\* ioutil.WriteFile: f.Write(data) and f.Close(); StoreKey returns nil
StoreWrite(t) ==
    /\ conc.th[t].pc = "write"
    /\ LET w == WriteFile(ks.path, conc.th[t].name, conc.th[t].data, FilePerm, 0)
       IN /\ fs' = w.fs
          /\ conc' = Return(t, IF w.ok THEN ErrNone ELSE ErrIO)
    /\ UNCHANGED <<ks, last, initCalled, initOk, imp, mem>>

\* a thread calls ks.GetKey(ski): up to the return of getSuffix
GetEnter(t, ski) ==
    /\ ks.isOpen
    /\ conc.th[t].pc \in {"idle", "done"}
    /\ conc' = [conc EXCEPT
                  !.th[t] = [IdleThread EXCEPT
                               !.op = "GetKey", !.ski = ski,
                               !.suffix = getSuffix(ks, EncodeToString(ski)),
                               !.pc = IF Len(ski) = 0 THEN "done" ELSE "load",
                               !.err = IF Len(ski) = 0 THEN ErrInvalidSKI ELSE ErrNone]]
    /\ UNCHANGED <<ks, fs, last, initCalled, initOk, imp, mem>>

\* the loader of the suffix, or the scan, reads and decodes; GetKey returns.
\* partial: a file it read was created or truncated and not written yet
GetLoad(t) ==
    /\ conc.th[t].pc = "load"
    /\ LET r == LoadBySuffix(ks, conc.th[t].ski, conc.th[t].suffix)
       IN conc' = [conc EXCEPT
                     !.th[t].pc = "done", !.th[t].res = r, !.th[t].err = r.err,
                     !.th[t].partial =
                        \E n \in r.reads \cap Names(KsPath) :
                            IsTruncated(fs[KsPath].files[n])]
    /\ UNCHANGED <<ks, fs, last, initCalled, initOk, imp, mem>>

NextConcKeys ==
    \/ OpenShared
    \/ \E t \in Threads, k \in ConcKeys : StoreEnter(t, k)
    \/ \E t \in Threads : StoreOpen(t)
    \/ \E t \in Threads : StoreWrite(t)
    \/ \E t \in Threads, ski \in ConcSkis : GetEnter(t, ski)
    \/ \E t \in Threads : GetLoad(t)

SpecConcKeys == InitState /\ [][NextConcKeys]_vars

-----------------------------------------------------------------------------
(* Properties of the key store, under Spec *)

\* the file StoreKey writes for k, and what it holds when written under pwd
FileNameOf(k) ==
    getPathForAlias(EncodeToString(SKI(k)),
        CASE k.variant \in {"ecdsaPriv", "sm2Priv"} -> SfxSk
          [] k.variant \in {"ecdsaPub", "sm2Pub"} -> SfxPk
          [] k.variant = "aes" -> SfxKey
          [] OTHER -> SfxSm4Key)

\* StoreKey(k) has just returned nil on an open, writable instance
JustStored ==
    /\ last.op = "StoreKey"
    /\ last.err = ErrNone
    /\ ks.isOpen /\ ~ks.readOnly

\* C1: after StoreKey(k) on an opened, writable store whose directory was
\* empty, GetKey(k.SKI()) with the same password returns a key equal to k:
\* same identifier, same private and symmetric flags, same variant.
C1_RoundTripFresh ==
    (JustStored /\ last.preEmpty) =>
        LET r == GetKeyCall(ks, SKI(last.key))
        IN r.ok /\ KeyEq(r.key, last.key) /\ r.key.variant = last.key.variant

\* C2: after StoreKey(k) of a private or public key in a directory that
\* earlier StoreKey calls have populated, GetKey(k.SKI()) returns a key with
\* k's identifier and k's private/public role.
C2_RoundTripPopulated ==
    (JustStored /\ ~last.preEmpty /\ ~IsSymmetric(last.key)) =>
        LET r == GetKeyCall(ks, SKI(last.key))
        IN r.ok /\ SKI(r.key) = SKI(last.key) /\ IsPrivate(r.key) = IsPrivate(last.key)

\* C3: StoreKey on an instance whose readOnly flag is set returns the
\* read-only error, whatever the argument, and leaves the file system as it was.
C3_ReadOnlyRejects ==
    [][(last'.op = "StoreKey" /\ ks.readOnly)
          => (last'.err = ErrReadOnly /\ fs' = fs)]_vars

\* C3 witness: a valid key was handed to a read-only instance and rejected
C3_Witness ==
    /\ last.op = "StoreKey"
    /\ ks.isOpen /\ ks.readOnly
    /\ last.key \in Keys
    /\ last.err = ErrReadOnly

\* C6: a key file written under a non-empty password P1, alone in the
\* directory, and GetKey for its identifier through an instance opened with
\* another password: the call fails, and with the codec's error.
C6_PasswordMismatch ==
    \A k \in Keys :
        (/\ last.op = "GetKey"
         /\ last.ski = SKI(k)
         /\ Names(KsPath) = {FileNameOf(k)}
         /\ fs[KsPath].files[FileNameOf(k)].data.enc # NoPwd
         /\ fs[KsPath].files[FileNameOf(k)].data.enc # ks.pwd)
        => (~last.res.ok /\ last.err = ErrDecode)

\* C12: on an instance that is not read-only, StoreKey(nil) returns the
\* nil-key error and StoreKey of a key of a type outside the six of the type
\* switch returns the key-type error; neither call changes the file system.
C12_StoreKeyArgumentErrors ==
    [][(last'.op = "StoreKey" /\ ~ks.readOnly)
          => /\ last'.key = NilKey => (last'.err = ErrNilKey /\ fs' = fs)
             /\ last'.key = OtherKey => (last'.err = ErrKeyType /\ fs' = fs)]_vars

\* C12 witness: a key of another type was handed to an open, writable
\* instance whose directory holds a file
C12_Witness ==
    /\ last.op = "StoreKey" /\ last.key = OtherKey
    /\ ks.isOpen /\ ~ks.readOnly
    /\ last.err = ErrKeyType
    /\ Names(KsPath) # {}

\* the part of a file name before its first '_', and the part after it
RECURSIVE BeforeUnderscore(_)
BeforeUnderscore(n) ==
    IF n = <<>> \/ Head(n) = Head(Underscore) THEN <<>>
    ELSE <<Head(n)>> \o BeforeUnderscore(Tail(n))

AfterUnderscore(n) ==
    IF Len(BeforeUnderscore(n)) = Len(n) THEN <<>>
    ELSE SubSeq(n, Len(BeforeUnderscore(n)) + 2, Len(n))

\* the first entry of a listing whose name starts with alias
RECURSIVE FirstWithPrefix(_, _)
FirstWithPrefix(files, alias) ==
    IF files = <<>> THEN <<>>
    ELSE IF HasPrefix(Head(files), alias) THEN Head(files)
    ELSE FirstWithPrefix(Tail(files), alias)

\* C16: GetKey(ski) in a directory that holds no file whose name part before
\* the first '_' is hex(ski) goes to the scan of the directory, and fails
\* with the not-found error when the scan finds nothing.
C16_ExactIdentifierMatch ==
    (/\ last.op = "GetKey" /\ Len(last.ski) > 0
     /\ ks.path = KsPath
     /\ \A n \in Names(KsPath) : BeforeUnderscore(n) # EncodeToString(last.ski))
    => /\ last.res.scan
       /\ ~last.res.ok => last.err = ErrNotFound

\* C17: when GetKey does not go to the scan, the text after the first '_' of
\* the entry that matched is one of key, sm4key, sk, pk and the one file the
\* loader reads is that entry.
C17_SuffixDispatch ==
    (/\ last.op = "GetKey" /\ Len(last.ski) > 0
     /\ ks.path = KsPath
     /\ ~last.res.scan)
    => LET n == FirstWithPrefix(ReadDir(KsPath), EncodeToString(last.ski))
       IN /\ AfterUnderscore(n) \in {SfxKey, SfxSm4Key, SfxSk, SfxPk}
          /\ last.res.reads = {n}

C23_ReturnedIdentifier ==
    (last.op = "GetKey" /\ last.res.ok) => SKI(last.res.key) = last.ski

\* C23 witness: GetKey has returned a key out of a directory that also holds
\* a key file of another identifier
C23_Witness ==
    /\ last.op = "GetKey" /\ last.res.ok
    /\ SKI(last.res.key) = last.ski
    /\ \E n \in Names(KsPath) : BeforeUnderscore(n) # EncodeToString(last.ski)

-----------------------------------------------------------------------------
(* Properties of Init, under SpecInit *)

IsInit(c) == c.op \in {"Init", "New"}

\* C4, as claimed: of two Init calls made one after the other on an
\* instance, whatever their arguments, the second returns the
\* already-initialized error.
C4_SecondInitRejected ==
    (last.op = "Init" /\ last.again) => last.err = ErrAlreadyInit

\* C4, amended: once an Init call has returned nil on the instance, every
\* later Init call with a non-empty path returns the already-initialized
\* error and changes neither the instance nor the file system; with an empty
\* path it returns the invalid-path error.
C4_InitAfterSuccessRejected ==
    [][(last'.op = "Init" /\ initOk)
          => /\ ks' = ks /\ fs' = fs
             /\ last'.err = IF last'.path = "" THEN ErrEmptyPath ELSE ErrAlreadyInit]_vars

\* C4 witness: a second Init with a non-empty path on an opened instance
C4_Witness ==
    /\ last.op = "Init" /\ last.again /\ last.path # ""
    /\ initOk /\ ks.isOpen
    /\ last.err = ErrAlreadyInit

\* C5: Init on a directory that exists and has entries leaves the file
\* system as it was, whatever it returns; and when the stat and the listing
\* of the directory succeed, the instance is open when Init returns: opened
\* by this call, or open before it and left so.
C5_InitLeavesNonEmptyDir ==
    [][(IsInit(last') /\ last'.path = KsPath /\ fs[KsPath].exists
            /\ Names(KsPath) # {})
          => /\ fs' = fs
             /\ \A pwd \in Pwds, ro \in BOOLEAN, um \in Umasks :
                   (\/ Init(pwd, KsPath, ro, "none", um)
                    \/ NewFileBasedKeyStore(pwd, KsPath, ro, "none", um))
                     => /\ ks'.isOpen
                        /\ last'.err = IF ks.isOpen /\ last'.op = "Init"
                                       THEN ErrAlreadyInit ELSE ErrNone]_vars

\* C5 witness: a closed instance was opened on a directory that holds a file
C5_Witness ==
    /\ IsInit(last) /\ last.path = KsPath /\ last.err = ErrNone
    /\ ~last.created /\ Names(KsPath) # {}
    /\ ks.isOpen

\* C10, as claimed: a successful Init that creates the directory gives it
\* read, write and execute for the owner and no bit for group or others.
C10_CreatedOwnerOnly ==
    (IsInit(last) /\ last.err = ErrNone /\ last.created)
        => (fs[KsPath].mode \div 64 = 7 /\ fs[KsPath].mode % 64 = 0)

\* C10, amended: a successful Init on a path that does not exist creates the
\* directory with mode 0755 less the bits of the umask (owner rwx; group and
\* others r-x unless the umask clears them), and opens the instance.
C10_CreatedWithDirPerm ==
    [][(IsInit(last') /\ last'.err = ErrNone /\ last'.path # ""
            /\ ~fs[last'.path].exists)
          => /\ fs'[last'.path].exists
             /\ fs'[last'.path].mode = ApplyUmask(DirPerm, last'.umask)
             /\ fs'[last'.path].files = NoFiles
             /\ ks'.isOpen]_vars

\* C10 witness: Init created the directory, and group and others can read it
C10_Witness ==
    /\ IsInit(last) /\ last.err = ErrNone /\ last.created
    /\ ks.isOpen
    /\ fs[KsPath].mode = DirPerm

\* C11: the instance is open exactly when an Init call on it has returned
\* nil; an Init with an empty path returns the invalid-path error whatever
\* the file system would answer, and touches neither the instance nor the
\* file system; an Init that fails on an unopened instance leaves it
\* unopened, and an Init with a non-empty path on an unopened instance
\* succeeds when the file system answers, also after failed calls; no call
\* on an instance clears isOpen.
C11_OpenIffInitSucceeded ==
    [][/\ ks'.isOpen <=> initOk'
       /\ (ks.isOpen /\ last'.op # "New") => ks'.isOpen
       /\ (IsInit(last') /\ last'.path = "")
             => /\ last'.err = ErrEmptyPath
                /\ fs' = fs
                /\ ks' = IF last'.op = "Init" THEN ks ELSE ZeroStore
       /\ (IsInit(last') /\ last'.err # ErrNone /\ (last'.op = "New" \/ ~ks.isOpen))
             => ~ks'.isOpen
       /\ (last'.op = "Init" /\ last'.path = KsPath /\ ~ks.isOpen)
             => \A pwd \in Pwds, ro \in BOOLEAN, um \in Umasks :
                   Init(pwd, KsPath, ro, "none", um)
                     => (last'.err = ErrNone /\ ks'.isOpen)]_vars

\* C11 witness: Init succeeded on an instance on which an earlier Init had
\* failed
C11_Witness ==
    /\ last.op = "Init" /\ last.again /\ last.err = ErrNone
    /\ ks.isOpen /\ initOk

\* C13: no call of Init, GetKey or StoreKey removes a directory or a file
\* name from a directory, and GetKey leaves the file system as it was, whether
\* it loads the file the suffix names or scans the directory.
C13_NoDeletion ==
    [][/\ last'.op \in {"Init", "New", "StoreKey", "GetKey"}
             => \A d \in Dirs :
                   /\ fs[d].exists => fs'[d].exists
                   /\ DOMAIN fs[d].files \subseteq DOMAIN fs'[d].files
       /\ last'.op = "GetKey" => fs' = fs]_vars

\* C13 witness: StoreKey wrote a file into a directory that held another
\* file, and both are there
C13_Witness ==
    /\ last.op = "StoreKey" /\ last.err = ErrNone /\ ~last.preEmpty
    /\ Cardinality(Names(KsPath)) = 2

\* C24: on an instance that is not open, StoreKey and GetKey return an error,
\* hand no file to ReadFile and leave every directory and every file as it
\* was.
C24_NoEffectBeforeOpen ==
    [][(~ks.isOpen /\ last'.op \in {"StoreKey", "GetKey"})
          => /\ last'.err # ErrNone
             /\ last'.res.reads = {}
             /\ fs' = fs]_vars

-----------------------------------------------------------------------------
(* Properties of the fallback scan, under SpecScan *)

\* the entry n of the store directory is a regular file within the size
\* limit that reads and decodes, under the store password, to an ECDSA or SM2
\* private key whose SKI is ski
Qualifies(n, ski) ==
    LET f == fs[ks.path].files[n]
        key == PEMtoPrivateKey(f.data, ks.pwd)
    IN /\ ~f.isDir /\ f.size <= SizeLimit /\ f.readable
       /\ key.ok /\ key.alg \in {"ecdsa", "sm2"}
       /\ <<FamilyByte(key.alg), key.mat[1]>> = ski

\* C7: when GetKey(ski) goes through the scan it returns a key exactly when
\* some entry qualifies, and then the key of the first qualifying entry in
\* listing order; it hands no subdirectory and no file above the size limit
\* to ReadFile; when no entry qualifies it returns the not-found error, which
\* carries ski.
C7_FallbackScan ==
    (last.op = "GetKey" /\ last.res.scan) =>
        LET listing == ReadDir(ks.path)
            Q == {i \in 1..Len(listing) : Qualifies(listing[i], last.ski)}
        IN /\ last.res.ok <=> Q # {}
           /\ Q # {} =>
                LET first == CHOOSE i \in Q : \A j \in Q : i <= j
                    d == fs[ks.path].files[listing[first]].data
                IN /\ last.res.key.mat = d.mat
                   /\ Family(last.res.key.variant) = d.alg
                   /\ IsPrivate(last.res.key)
                   /\ \A i \in Q \ {first} : listing[i] \notin last.res.reads
           /\ \A n \in last.res.reads :
                ~fs[ks.path].files[n].isDir /\ fs[ks.path].files[n].size <= SizeLimit
           /\ Q = {} => (last.err = ErrNotFound /\ last.res.ski = last.ski)

\* C7 witness: the scan passed over a file above the limit, listed first,
\* and returned the key of a file listed after it
C7_Witness ==
    /\ last.op = "GetKey" /\ last.res.scan /\ last.res.ok
    /\ \E n \in Names(KsPath), m \in last.res.reads :
          /\ fs[KsPath].files[n].size > SizeLimit
          /\ NameLess(n, m)
          /\ n \notin last.res.reads

-----------------------------------------------------------------------------
(* Properties of the importers, under SpecImport *)

C9_Sm4Length ==
    (imp.op = "sm4") =>
        /\ imp.ret.ok <=>
              (imp.raw.type = "bytes" /\ ~imp.raw.isNil /\ Len(imp.raw.bytes) = 16)
        /\ imp.ret.ok =>
              (/\ imp.ret.key.variant = "sm4"
               /\ imp.ret.key.mat = imp.raw.bytes
               /\ Len(imp.ret.key.mat) = 16)
        /\ ~imp.ret.ok => (imp.ret.key = NoKey /\ imp.ret.err # ErrNone)

\* C9 witness: 16 bytes were imported as an SM4 key
C9_Witness ==
    /\ imp.op = "sm4" /\ imp.ret.ok
    /\ Len(imp.raw.bytes) = 16
    /\ imp.ret.key.mat = imp.raw.bytes

\* C19: for a certificate whose public key is an SM2 public key, the
\* certificate importer of a CSP makes one inner call, on the importer that
\* this CSP has registered for SM2GoPublicKeyImportOpts, with the public key
\* object of the certificate and options as ephemeral as its own; what it
\* returns, key or error, is what that call returned.
C19_CertificateRedispatch ==
    (/\ imp.op = "x509" /\ imp.raw.type = "cert" /\ ~imp.raw.isNil
     /\ imp.raw.pk.type = "sm2pub")
    => LET pk == RawValue("sm2pub", imp.raw.pk.isNil, <<>>, imp.raw.pk)
           registered == KeyImporters(imp.csp, "SM2GoPublicKeyImportOpts")
           inner == InnerKeyImport(registered, pk, imp.ephemeral)
       IN /\ Len(imp.ret.calls) = 1
          /\ imp.ret.calls[1].importer = registered
          /\ imp.ret.calls[1].raw = pk
          /\ imp.ret.calls[1].ephemeral = imp.ephemeral
          /\ imp.ret.ok = inner.ok
          /\ imp.ret.key = inner.key
          /\ imp.ret.err = inner.err

\* C19 witness: an ephemeral import of a certificate through the CSP with the
\* test double returned the double's key
C19_Witness ==
    /\ imp.op = "x509" /\ imp.csp = DoubleCsp /\ imp.ephemeral
    /\ imp.raw.type = "cert" /\ ~imp.raw.isNil
    /\ imp.raw.pk.type = "sm2pub" /\ ~imp.raw.pk.isNil
    /\ imp.ret.ok
    /\ imp.ret.key.mat = <<0>> \o imp.raw.pk.mat
    /\ imp.ret.calls[1].importer = "sm2GoDouble"

\* the kind of an importer's error
ImportErrorClass(err) ==
    CASE err \in {ErrExpectedBytes, ErrExpectedBytesPKIX, ErrExpectedBytesPriv,
                  ErrExpectedSM2Pub, ErrExpectedCert} -> "wrong type"
      [] err \in {ErrNilRaw, ErrKeyLength, ErrEmptyRawPKIX, ErrEmptyRawPriv}
            -> "nil, empty or wrong length"
      [] err = ErrParse -> "parse failure"
      [] err = ErrCertKeyType -> "unsupported key type"
      [] OTHER -> "none"

\* the dynamic type an importer expects of raw
ExpectedType(importer) ==
    CASE importer = "x509" -> "cert"
      [] importer = "sm2Go" -> "sm2pub"
      [] OTHER -> "bytes"

\* C20: every call of an importer returns a key and no error, or no key and
\* an error of one of the four kinds; the error is of the wrong-type kind
\* whenever raw has another type than the importer expects, and a parse
\* failure carries the error of the parser.
C20_ImporterErrors ==
    (imp.op \in Importers) =>
        /\ \/ imp.ret.ok /\ imp.ret.key # NoKey /\ imp.ret.err = ErrNone
           \/ ~imp.ret.ok /\ imp.ret.key = NoKey
                /\ ImportErrorClass(imp.ret.err) # "none"
        /\ imp.raw.type # ExpectedType(imp.op)
              => ImportErrorClass(imp.ret.err) = "wrong type"
        /\ ImportErrorClass(imp.ret.err) = "parse failure"
              => imp.ret.cause \in {ErrAsn1, ErrNotSM2}

-----------------------------------------------------------------------------
(* Properties of concurrent calls *)

\* the threads whose Init call has returned with err
Returned(err) ==
    {t \in Threads : conc.th[t].op = "Init" /\ conc.th[t].pc = "done"
                       /\ conc.th[t].err = err}

\* C14: of the Init calls that threads make on one instance with non-empty
\* paths on a file system that answers, at most one returns nil at any time,
\* the instance is open exactly when one has, and its path, password and
\* read-only flag are then the arguments of that call; when all the calls
\* have returned, one has returned nil and every other one the
\* already-initialized error.
C14_ConcurrentInit ==
    /\ Cardinality(Returned(ErrNone)) <= 1
    /\ ks.isOpen <=> Returned(ErrNone) # {}
    /\ \A t \in Returned(ErrNone) :
          /\ ks.path = conc.th[t].path
          /\ ks.pwd = conc.th[t].pwd
          /\ ks.readOnly = conc.th[t].readOnly
    /\ (\A t \in Threads : conc.th[t].pc = "done")
          => /\ Cardinality(Returned(ErrNone)) = 1
             /\ Returned(ErrNone) \cup Returned(ErrAlreadyInit) = Threads

\* C14 witness: all the threads have returned from Init calls with different
\* arguments, the first thread with the already-initialized error
C14_Witness ==
    /\ \A t \in Threads : conc.th[t].op = "Init" /\ conc.th[t].pc = "done"
    /\ 1 \in Returned(ErrAlreadyInit)
    /\ \E t \in Returned(ErrNone) :
          /\ conc.th[t].path # conc.th[1].path
          /\ conc.th[t].readOnly # conc.th[1].readOnly
          /\ ks.pwd = ThreadPwd(t)

\* C15: a GetKey that runs while StoreKey calls run on the same instance
\* reads no file that is created or truncated and not yet written.
C15_NoPartialRead ==
    \A t \in Threads :
        (conc.th[t].op = "GetKey" /\ conc.th[t].pc = "done")
            => ~conc.th[t].partial

\* C21: a key that the SM4 importer has returned keeps its bytes and its
\* identifier when the caller writes into the slice it passed as raw.
C21_ImportedKeyImmutable ==
    [][(imp.op = "sm4" /\ imp.ret.ok /\ imp'.writes > imp.writes)
          => /\ imp'.ret.key.mat = imp.ret.key.mat
             /\ SKI(imp'.ret.key) = SKI(imp.ret.key)]_vars

\* C22: once an Init has returned nil, the password, the path and the
\* read-only flag of the instance are the arguments of that call, through
\* every later GetKey, StoreKey, rejected Init and write of the caller into
\* the password buffer it passed.
C22_ConfigurationFixed ==
    initOk => /\ ks.isOpen
              /\ ks.pwd = mem.opened.pwd
              /\ ks.path = mem.opened.path
              /\ ReadOnly(ks) = mem.opened.readOnly

\* C22 witness: the caller has overwritten the buffer that it passed to the
\* Init that opened the instance, and the instance has its password
C22_Witness ==
    /\ initOk /\ last.op = "OverwritePwd"
    /\ mem.pwdBuf # mem.opened.pwd
    /\ ks.pwd = mem.opened.pwd /\ ks.pwd # NoPwd

====
